---- MODULE Spec2Model ----
(***************************************************************************)
(* State-machine model of the weather backend's authentication core        *)
(* (auth.py), the endpoints of main.py that use it, the users and          *)
(* home_addresses tables (models.py) and the cleanup script (cleanup.py).  *)
(*                                                                         *)
(* Conventions                                                             *)
(*   - an optional Python value (None or v) is the sequence <<>> or <<v>>; *)
(*   - a Python str is a sequence of one-character strings;                *)
(*   - a Python dict is a function whose domain is its set of keys;        *)
(*   - time is counted in minutes (the unit of ACCESS_TOKEN_EXPIRE_MINUTES)*)
(***************************************************************************)
EXTENDS Integers, Sequences, FiniteSets, TLC

VARIABLES
    env,                          \* process environment (os.getenv source)
    proc,                         \* "init" | "running" | "aborted"
    SECRET_KEY,                   \* auth.py module globals
    ALGORITHM,
    ACCESS_TOKEN_EXPIRE_MINUTES,
    now,                          \* datetime.now(timezone.utc), in minutes
    users,                        \* rows of table users
    nextId,                       \* users.id sequence
    homes,                        \* rows of table home_addresses, in id order
    pc,                           \* position of each in-flight signup request
    loc,                          \* locals of each in-flight signup request
    issued,                       \* last call of create_access_token
    req,                          \* last operation and its inputs
    resp                          \* its outcome

vars == <<env, proc, SECRET_KEY, ALGORITHM, ACCESS_TOKEN_EXPIRE_MINUTES, now,
          users, nextId, homes, pc, loc, issued, req, resp>>

(***************************************************************************)
(* Bounds                                                                  *)
(***************************************************************************)
MaxTime == 2
MaxId == 3

Procs == {1, 2}
Usernames == {"alice", "bob"}
Passwords == {"pw1", "pw2"}
Salts == {1, 2}

(***************************************************************************)
(* Configuration load: auth.py lines 18-28                                 *)
(***************************************************************************)
None == <<>>

\* Python truthiness of an Optional[str]: None and "" are falsy.
Truthy(v) == v # None /\ v[1] # <<>>

IsDigit(c) == c \in {"0", "1", "2", "3", "4", "5", "6", "7", "8", "9"}

DigitVal(c) ==
    CASE c = "0" -> 0 [] c = "1" -> 1 [] c = "2" -> 2 [] c = "3" -> 3
      [] c = "4" -> 4 [] c = "5" -> 5 [] c = "6" -> 6 [] c = "7" -> 7
      [] c = "8" -> 8 [] c = "9" -> 9

RECURSIVE DigitsVal(_)
DigitsVal(s) ==
    IF s = <<>> THEN 0
    ELSE 10 * DigitsVal(SubSeq(s, 1, Len(s) - 1)) + DigitVal(s[Len(s)])

\* int(str): an optional sign followed by at least one decimal digit;
\* anything else raises ValueError (ok = FALSE).
PyInt(s) ==
    LET signed == s # <<>> /\ s[1] \in {"-", "+"}
        digits == IF signed THEN Tail(s) ELSE s
        ok     == digits # <<>> /\ \A i \in 1..Len(digits) : IsDigit(digits[i])
    IN  [ok  |-> ok,
         val |-> IF ~ok THEN 0
                 ELSE IF signed /\ s[1] = "-" THEN 0 - DigitsVal(digits)
                 ELSE DigitsVal(digits)]

\* The str a module global holds after os.getenv; <<>> stands for None too.
Getenv(v) == IF v = None THEN <<>> ELSE v[1]

\* Faulty variant: the guard forgets ALGORITHM.
ConfigMissingNoAlg(e) ==
    ~Truthy(e.SECRET_KEY) \/ ~Truthy(e.ACCESS_TOKEN_EXPIRE_MINUTES)

\* auth.py line 25
ConfigMissing(e) ==
    ~Truthy(e.SECRET_KEY) \/ ~Truthy(e.ALGORITHM)
                          \/ ~Truthy(e.ACCESS_TOKEN_EXPIRE_MINUTES)

SecretInputs == {None, <<<<"k", "1">>>>}
AlgorithmInputs == {None, <<<<"H", "S">>>>}
MinutesInputs == {None, <<<<>>>>, <<<<"a", "b">>>>, <<<<"0">>>>,
                  <<<<"-", "1">>>>, <<<<"2">>>>}

EnvInputs == [SECRET_KEY : SecretInputs, ALGORITHM : AlgorithmInputs,
              ACCESS_TOKEN_EXPIRE_MINUTES : MinutesInputs]

GoodEnv == [SECRET_KEY |-> <<<<"k", "1">>>>, ALGORITHM |-> <<<<"H", "S">>>>,
            ACCESS_TOKEN_EXPIRE_MINUTES |-> <<<<"2">>>>]

ForeignSecret == <<"x", "9">>
ForeignAlgorithm == <<"n", "o">>

(***************************************************************************)
(* Password hashing: auth.py lines 33-41 (passlib CryptContext, bcrypt)    *)
(***************************************************************************)
BcryptIdent == "$2b$"

Bcrypt(password, salt) == <<password, salt>>

\* pwd_context.hash: a fresh salt per call, embedded in the hash string.
hash_password(password, salt) ==
    [ident |-> BcryptIdent, salt |-> salt, digest |-> Bcrypt(password, salt)]

\* a stored value that no configured scheme identifies
MalformedHash == [ident |-> "", salt |-> 0, digest |-> <<"", 0>>]

\* pwd_context.verify: raises UnknownHashError when no scheme of the context
\* identifies the hash; verify_password has no handler, so it propagates.
verify_password(password, hashed) ==
    IF hashed.ident # BcryptIdent
    THEN [raised |-> TRUE, value |-> FALSE]
    ELSE [raised |-> FALSE,
          value  |-> hashed.digest = Bcrypt(password, hashed.salt)]

(***************************************************************************)
(* JWT handling: auth.py lines 46-59 (python-jose)                         *)
(***************************************************************************)
EmptyDict == [k \in {} |-> 0]

DictUpdate(d, key, value) ==
    [k \in DOMAIN d \cup {key} |-> IF k = key THEN value ELSE d[k]]

\* The HMAC of a payload under a key and an algorithm; flip = 1 marks a
\* signature segment in which a character was changed afterwards.
Sign(payload, key, alg) ==
    [key |-> key, alg |-> alg, payload |-> payload, flip |-> 0]

\* jwt.encode
JwtEncode(payload, key, alg) ==
    [wellformed |-> TRUE, alg |-> alg, payload |-> payload,
     sig |-> Sign(payload, key, alg)]

MalformedToken ==
    [wellformed |-> FALSE, alg |-> <<>>, payload |-> EmptyDict,
     sig |-> Sign(EmptyDict, <<>>, <<>>)]

Tamper(t) == [t EXCEPT !.sig.flip = 1]

\* jwt.decode(token, key, algorithms=[alg]) at time t: structure, header
\* algorithm, signature, then the exp claim (expired when exp < now).
JwtDecode(token, key, alg, t) ==
    IF ~token.wellformed \/ token.alg # alg
       \/ token.sig # Sign(token.payload, key, alg)
    THEN [ok |-> FALSE, err |-> "JWTError", payload |-> EmptyDict]
    ELSE IF "exp" \in DOMAIN token.payload /\ token.payload["exp"] < t
    THEN [ok |-> FALSE, err |-> "ExpiredSignatureError", payload |-> EmptyDict]
    ELSE [ok |-> TRUE, err |-> "", payload |-> token.payload]

\* Python truthiness of an Optional[timedelta]: None and timedelta(0) are falsy.
TruthyDelta(d) == d # None /\ d[1] # 0

\* Faulty variant: the copy of line 48 is dropped, the caller's dict gets "exp".
create_access_token_nocopy(data, expires_delta, key, alg, minutes, t) ==
    LET expire    == t + (IF TruthyDelta(expires_delta) THEN expires_delta[1]
                          ELSE minutes)
        to_encode == DictUpdate(data, "exp", expire)
    IN  [token |-> JwtEncode(to_encode, key, alg), data |-> to_encode]

\* auth.py lines 46-51; data is the caller's dict after the call.
create_access_token(data, expires_delta, key, alg, minutes, t) ==
    LET expire    == t + (IF TruthyDelta(expires_delta) THEN expires_delta[1]
                          ELSE minutes)
        to_encode == DictUpdate(data, "exp", expire)
    IN  [token |-> JwtEncode(to_encode, key, alg), data |-> data]

\* Faulty variant: an expired signature is reported with an error of its own.
decode_access_token_split(token, key, alg, t) ==
    LET r == JwtDecode(token, key, alg, t)
    IN  IF r.ok
        THEN [status |-> 200, detail |-> "", payload |-> r.payload]
        ELSE IF r.err = "ExpiredSignatureError"
        THEN [status |-> 401, detail |-> "Token expired", payload |-> EmptyDict]
        ELSE [status |-> 401, detail |-> "Invalid or expired token",
              payload |-> EmptyDict]

\* auth.py lines 53-59: ExpiredSignatureError is a JWTError, one handler.
decode_access_token(token, key, alg, t) ==
    LET r == JwtDecode(token, key, alg, t)
    IN  IF r.ok
        THEN [status |-> 200, detail |-> "", payload |-> r.payload]
        ELSE [status |-> 401, detail |-> "Invalid or expired token",
              payload |-> EmptyDict]

(***************************************************************************)
(* Current user dependency: auth.py lines 64-77                            *)
(***************************************************************************)
\* Faulty variant: a token in the access_token cookie wins over the header.
oauth2_scheme_cookie(request) ==
    IF request.cookie # None THEN request.cookie ELSE request.header

\* OAuth2PasswordBearer(tokenUrl="login"): the bearer token of the
\* Authorization header, None when the header is absent; cookies are not read.
oauth2_scheme(request) == request.header

\* db.query(models.User).filter(models.User.username == username)
UsersNamed(rows, username) == {u \in rows : u.username = username}

Failure(status, detail, opened) ==
    [status |-> status, detail |-> detail, user |-> {}, opened |-> opened]

\* Faulty variant: the session is opened before the token is looked at.
get_current_user_eager(request, rows, key, alg, t) ==
    LET token == oauth2_scheme(request)
    IN  IF token = None THEN Failure(401, "Not authenticated", 1)
        ELSE LET d == decode_access_token(token[1], key, alg, t)
             IN  IF d.status # 200 THEN Failure(d.status, d.detail, 1)
                 ELSE IF "sub" \notin DOMAIN d.payload
                 THEN Failure(401, "Invalid token", 1)
                 ELSE LET found == UsersNamed(rows, d.payload["sub"])
                      IN  IF found = {} THEN Failure(404, "User not found", 1)
                          ELSE [status |-> 200, detail |-> "",
                                user |-> {CHOOSE u \in found : TRUE},
                                opened |-> 1]

\* Faulty variant: an unknown subject is reported like a bad token.
get_current_user_401(request, rows, key, alg, t) ==
    LET token == oauth2_scheme(request)
    IN  IF token = None THEN Failure(401, "Not authenticated", 0)
        ELSE LET d == decode_access_token(token[1], key, alg, t)
             IN  IF d.status # 200 THEN Failure(d.status, d.detail, 0)
                 ELSE IF "sub" \notin DOMAIN d.payload
                 THEN Failure(401, "Invalid token", 0)
                 ELSE LET found == UsersNamed(rows, d.payload["sub"])
                      IN  IF found = {} THEN Failure(401, "Invalid token", 1)
                          ELSE [status |-> 200, detail |-> "",
                                user |-> {CHOOSE u \in found : TRUE},
                                opened |-> 1]

\* The dependency as FastAPI runs it: oauth2_scheme first (401 "Not
\* authenticated" without a bearer header), then the body of lines 68-77.
\* opened counts the SessionLocal() calls made; user is {} or {row}.
get_current_user(request, rows, key, alg, t) ==
    LET token == oauth2_scheme(request)
    IN  IF token = None THEN Failure(401, "Not authenticated", 0)
        ELSE LET d == decode_access_token(token[1], key, alg, t)
             IN  IF d.status # 200 THEN Failure(d.status, d.detail, 0)
                 ELSE IF "sub" \notin DOMAIN d.payload
                 THEN Failure(401, "Invalid token", 0)
                 ELSE LET found == UsersNamed(rows, d.payload["sub"])
                      IN  IF found = {} THEN Failure(404, "User not found", 1)
                          ELSE [status |-> 200, detail |-> "",
                                user |-> {CHOOSE u \in found : TRUE},
                                opened |-> 1]

(***************************************************************************)
(* Inputs                                                                  *)
(***************************************************************************)
SubDict(username) == [k \in {"sub"} |-> username]

DataInputs ==
    {[k \in {"sub", "role"} |-> IF k = "sub" THEN "alice" ELSE "admin"],
     [k \in {"role"} |-> "admin"]}

DeltaInputs == {None, <<0 - 1>>, <<0>>, <<1>>}

AddressInputs ==
    {[street |-> "1 Main St", city |-> "Pune", pincode |-> "411001"],
     [street |-> "2 Side Rd", city |-> "Delhi", pincode |-> "110001"]}

\* Tokens a client may present: signed with the configured secret (as a
\* login would have issued them), signed otherwise, altered, or not a JWT.
SignedInputs ==
    {JwtEncode(DictUpdate(SubDict(u), "exp", MaxTime + 1), SECRET_KEY, ALGORITHM)
        : u \in Usernames}
    \cup {JwtEncode(DictUpdate(SubDict("alice"), "exp", 0), SECRET_KEY, ALGORITHM),
          JwtEncode([k \in {"exp"} |-> MaxTime + 1], SECRET_KEY, ALGORITHM)}

ForgedInputs ==
    {JwtEncode(DictUpdate(SubDict("alice"), "exp", MaxTime + 1),
               ForeignSecret, ALGORITHM),
     JwtEncode(DictUpdate(SubDict("alice"), "exp", MaxTime + 1),
               SECRET_KEY, ForeignAlgorithm),
     Tamper(JwtEncode(DictUpdate(SubDict("alice"), "exp", MaxTime + 1),
                      SECRET_KEY, ALGORITHM)),
     MalformedToken}

IssuedInputs == IF issued = None THEN {} ELSE {issued[1].token}

TokenInputs == SignedInputs \cup ForgedInputs \cup IssuedInputs

HeaderInputs == {None} \cup {<<t>> : t \in TokenInputs}

CookieInputs ==
    {None} \cup {<<JwtEncode(DictUpdate(SubDict(u), "exp", MaxTime + 1),
                             SECRET_KEY, ALGORITHM)>> : u \in Usernames}

\* Contents of the database when the process starts: empty, or holding
\* alice (bcrypt hash) and bob (a value no scheme identifies).
SeedUsers ==
    {[id |-> 1, username |-> "alice",
      hashed_password |-> hash_password("pw1", 1)],
     [id |-> 2, username |-> "bob", hashed_password |-> MalformedHash]}

NoRequest == [op |-> "none", at |-> 0, args |-> <<>>]
NoResponse == [status |-> 0, detail |-> "", user |-> "", body |-> <<>>,
               opened |-> 0]
NoLocals == [username |-> "", password |-> ""]

Response(status, detail) ==
    [status |-> status, detail |-> detail, user |-> "", body |-> <<>>,
     opened |-> 0]

UserName(found) == IF found = {} THEN "" ELSE (CHOOSE u \in found : TRUE).username

(***************************************************************************)
(* Initial states                                                          *)
(***************************************************************************)
InitCommon ==
    /\ now = 0
    /\ homes = <<>>
    /\ pc = [p \in Procs |-> "idle"]
    /\ loc = [p \in Procs |-> NoLocals]
    /\ issued = None
    /\ req = NoRequest
    /\ resp = NoResponse

\* Before auth.py is imported.
Init ==
    /\ env \in EnvInputs
    /\ proc = "init"
    /\ SECRET_KEY = <<>>
    /\ ALGORITHM = <<>>
    /\ ACCESS_TOKEN_EXPIRE_MINUTES = 0
    /\ \/ users = {} /\ nextId = 1
       \/ users = SeedUsers /\ nextId = 3
    /\ InitCommon

(***************************************************************************)
(* Startup: auth.py lines 18-28                                            *)
(***************************************************************************)
LoadConfig ==
    /\ proc = "init"
    /\ IF ConfigMissing(env) \/ ~PyInt(env.ACCESS_TOKEN_EXPIRE_MINUTES[1]).ok
       THEN /\ proc' = "aborted"
            /\ UNCHANGED <<SECRET_KEY, ALGORITHM, ACCESS_TOKEN_EXPIRE_MINUTES>>
       ELSE /\ proc' = "running"
            /\ SECRET_KEY' = Getenv(env.SECRET_KEY)
            /\ ALGORITHM' = Getenv(env.ALGORITHM)
            /\ ACCESS_TOKEN_EXPIRE_MINUTES' =
                   PyInt(env.ACCESS_TOKEN_EXPIRE_MINUTES[1]).val
    /\ UNCHANGED <<env, now, users, nextId, homes, pc, loc, issued, req, resp>>

\* The clock advances.
Tick ==
    /\ proc = "running"
    /\ now < MaxTime
    /\ now' = now + 1
    /\ UNCHANGED <<env, proc, SECRET_KEY, ALGORITHM,
                   ACCESS_TOKEN_EXPIRE_MINUTES, users, nextId, homes, pc, loc,
                   issued, req, resp>>

(***************************************************************************)
(* Token service calls                                                     *)
(***************************************************************************)
\* create_access_token(data, expires_delta)
IssueToken ==
    /\ proc = "running"
    /\ \E data \in DataInputs, delta \in DeltaInputs :
         LET r == create_access_token(data, delta, SECRET_KEY, ALGORITHM,
                                      ACCESS_TOKEN_EXPIRE_MINUTES, now)
         IN  /\ issued' = <<[data |-> data, after |-> r.data, delta |-> delta,
                             at |-> now, token |-> r.token]>>
             /\ req' = [op |-> "issue", at |-> now,
                        args |-> [data |-> data, delta |-> delta]]
             /\ resp' = [Response(200, "") EXCEPT !.body = <<r.token>>]
    /\ UNCHANGED <<env, proc, SECRET_KEY, ALGORITHM,
                   ACCESS_TOKEN_EXPIRE_MINUTES, now, users, nextId, homes, pc,
                   loc>>

\* decode_access_token(token)
Decode ==
    /\ proc = "running"
    /\ \E token \in TokenInputs :
         LET d == decode_access_token(token, SECRET_KEY, ALGORITHM, now)
         IN  /\ req' = [op |-> "decode", at |-> now, args |-> [token |-> token]]
             /\ resp' = [Response(d.status, d.detail) EXCEPT
                            !.body = IF d.status = 200 THEN <<d.payload>>
                                     ELSE <<>>]
    /\ UNCHANGED <<env, proc, SECRET_KEY, ALGORITHM,
                   ACCESS_TOKEN_EXPIRE_MINUTES, now, users, nextId, homes, pc,
                   loc, issued>>

(***************************************************************************)
(* GET /me: main.py lines 101-107                                          *)
(***************************************************************************)
read_users_me ==
    /\ proc = "running"
    /\ \E cookie \in CookieInputs, header \in HeaderInputs :
         LET request == [cookie |-> cookie, header |-> header]
             g == get_current_user(request, users, SECRET_KEY, ALGORITHM, now)
         IN  /\ req' = [op |-> "me", at |-> now, args |-> request]
             /\ resp' = [status |-> g.status, detail |-> g.detail,
                         user |-> UserName(g.user), body |-> <<>>,
                         opened |-> g.opened]
    /\ UNCHANGED <<env, proc, SECRET_KEY, ALGORITHM,
                   ACCESS_TOKEN_EXPIRE_MINUTES, now, users, nextId, homes, pc,
                   loc, issued>>

(***************************************************************************)
(* cleanup.py: DELETE FROM users, then commit.  home_addresses.user_id is  *)
(* a foreign key to users.id (models.py line 35) with no ON DELETE rule,   *)
(* so the statement fails while a home address row refers to a user.       *)
(***************************************************************************)
Cleanup ==
    /\ users # {}
    /\ IF \E i \in 1..Len(homes) : \E u \in users : homes[i].user_id = u.id
       THEN /\ users' = users
            /\ resp' = Response(0, "IntegrityError")
       ELSE /\ users' = {}
            /\ resp' = Response(0, "All users deleted")
    /\ req' = [op |-> "cleanup", at |-> now, args |-> <<>>]
    /\ UNCHANGED <<env, proc, SECRET_KEY, ALGORITHM,
                   ACCESS_TOKEN_EXPIRE_MINUTES, now, nextId, homes, pc, loc,
                   issued>>

(***************************************************************************)
(* POST /signup: main.py lines 73-88.  The existence query and the commit  *)
(* are two database round trips; requests of other workers run in between. *)
(* users.username is UNIQUE (models.py line 10): the INSERT of the commit  *)
(* takes its id from the sequence and fails with IntegrityError when a row *)
(* of that name exists; signup has no handler for it.                      *)
(***************************************************************************)
SignupQuery(p) ==
    /\ proc = "running"
    /\ pc[p] = "idle"
    /\ \E username \in Usernames, password \in Passwords :
         IF UsersNamed(users, username) # {}
         THEN /\ req' = [op |-> "signup", at |-> now,
                         args |-> [username |-> username, password |-> password]]
              /\ resp' = [Response(409, "Username already exists")
                             EXCEPT !.opened = 1]
              /\ UNCHANGED <<pc, loc>>
         ELSE /\ nextId <= MaxId
              /\ pc' = [pc EXCEPT ![p] = "insert"]
              /\ loc' = [loc EXCEPT ![p] = [username |-> username,
                                            password |-> password]]
              /\ UNCHANGED <<req, resp>>
    /\ UNCHANGED <<env, proc, SECRET_KEY, ALGORITHM,
                   ACCESS_TOKEN_EXPIRE_MINUTES, now, users, nextId, homes,
                   issued>>

SignupCommit(p) ==
    /\ pc[p] = "insert"
    /\ \E salt \in Salts :
         LET new_user == [id |-> nextId, username |-> loc[p].username,
                          hashed_password |->
                              hash_password(loc[p].password, salt)]
         IN  IF UsersNamed(users, loc[p].username) # {}
             THEN /\ users' = users
                  /\ resp' = [Response(500, "Internal Server Error")
                                 EXCEPT !.opened = 1]
             ELSE /\ users' = users \cup {new_user}
                  /\ resp' = [Response(200, "") EXCEPT
                                 !.user = new_user.username,
                                 !.body = <<new_user>>, !.opened = 1]
    /\ nextId' = nextId + 1
    /\ req' = [op |-> "signup", at |-> now, args |-> loc[p]]
    /\ pc' = [pc EXCEPT ![p] = "idle"]
    /\ loc' = [loc EXCEPT ![p] = NoLocals]
    /\ UNCHANGED <<env, proc, SECRET_KEY, ALGORITHM,
                   ACCESS_TOKEN_EXPIRE_MINUTES, now, homes, issued>>

(***************************************************************************)
(* POST /login: main.py lines 90-98                                        *)
(***************************************************************************)
login ==
    /\ proc = "running"
    /\ \E username \in Usernames, password \in Passwords :
         LET found == UsersNamed(users, username)
             user  == CHOOSE u \in found : TRUE
             v     == verify_password(password, user.hashed_password)
             r     == create_access_token(SubDict(user.username), None,
                          SECRET_KEY, ALGORITHM, ACCESS_TOKEN_EXPIRE_MINUTES,
                          now)
         IN  /\ req' = [op |-> "login", at |-> now,
                        args |-> [username |-> username, password |-> password]]
             /\ IF found = {}
                THEN /\ resp' = [Response(401, "Invalid username or password")
                                    EXCEPT !.opened = 1]
                     /\ UNCHANGED issued
                ELSE IF v.raised
                THEN /\ resp' = [Response(500, "Internal Server Error")
                                    EXCEPT !.opened = 1]
                     /\ UNCHANGED issued
                ELSE IF ~v.value
                THEN /\ resp' = [Response(401, "Invalid username or password")
                                    EXCEPT !.opened = 1]
                     /\ UNCHANGED issued
                ELSE /\ resp' = [Response(200, "") EXCEPT
                                    !.user = user.username,
                                    !.body = <<r.token>>, !.opened = 1]
                     /\ issued' = <<[data |-> SubDict(user.username),
                                     after |-> r.data, delta |-> None,
                                     at |-> now, token |-> r.token]>>
    /\ UNCHANGED <<env, proc, SECRET_KEY, ALGORITHM,
                   ACCESS_TOKEN_EXPIRE_MINUTES, now, users, nextId, homes, pc,
                   loc>>

(***************************************************************************)
(* Home address endpoints: main.py lines 109-152 and 199-208.              *)
(* current_user belongs to the session get_current_user opened (auth.py    *)
(* line 73), which nothing keeps a reference to afterwards; db is another  *)
(* session (SessionLocal() in the handler).  collected says whether the    *)
(* first session has been garbage-collected when the handler reads         *)
(* current_user.home_address: the lazy load then raises                    *)
(* DetachedInstanceError.  db.refresh and db.delete of an object of the    *)
(* first session raise InvalidRequestError, and db.commit() writes nothing *)
(* of what was changed on that object.                                     *)
(***************************************************************************)
HomeOf(rows, user_id) ==
    {i \in 1..Len(rows) : rows[i].user_id = user_id}

AddressOf(row) ==
    [street |-> row.street, city |-> row.city, pincode |-> row.pincode]

add_or_update_home_address ==
    /\ proc = "running"
    /\ \E header \in HeaderInputs, address \in AddressInputs,
          collected \in BOOLEAN :
         LET request == [cookie |-> None, header |-> header]
             g == get_current_user(request, users, SECRET_KEY, ALGORITHM, now)
             current_user == CHOOSE u \in g.user : TRUE
             new_home == [id |-> Len(homes) + 1, user_id |-> current_user.id,
                          street |-> address.street, city |-> address.city,
                          pincode |-> address.pincode]
         IN  /\ req' = [op |-> "post_home", at |-> now,
                        args |-> [header |-> header, address |-> address]]
             /\ IF g.status # 200
                THEN /\ resp' = [status |-> g.status, detail |-> g.detail,
                                 user |-> "", body |-> <<>>,
                                 opened |-> g.opened]
                     /\ UNCHANGED homes
                ELSE IF collected \/ HomeOf(homes, current_user.id) # {}
                THEN /\ resp' = [Response(500, "Internal Server Error") EXCEPT
                                    !.user = current_user.username,
                                    !.opened = g.opened + 1]
                     /\ UNCHANGED homes
                ELSE /\ homes' = Append(homes, new_home)
                     /\ resp' = [Response(200, "") EXCEPT
                                    !.user = current_user.username,
                                    !.body = <<new_home>>,
                                    !.opened = g.opened + 1]
    /\ UNCHANGED <<env, proc, SECRET_KEY, ALGORITHM,
                   ACCESS_TOKEN_EXPIRE_MINUTES, now, users, nextId, pc, loc,
                   issued>>

delete_home_address ==
    /\ proc = "running"
    /\ \E header \in HeaderInputs, collected \in BOOLEAN :
         LET request == [cookie |-> None, header |-> header]
             g == get_current_user(request, users, SECRET_KEY, ALGORITHM, now)
             current_user == CHOOSE u \in g.user : TRUE
         IN  /\ req' = [op |-> "delete_home", at |-> now,
                        args |-> [header |-> header]]
             /\ IF g.status # 200
                THEN resp' = [status |-> g.status, detail |-> g.detail,
                              user |-> "", body |-> <<>>, opened |-> g.opened]
                ELSE IF collected
                THEN resp' = [Response(500, "Internal Server Error") EXCEPT
                                 !.user = current_user.username,
                                 !.opened = g.opened + 1]
                ELSE IF HomeOf(homes, current_user.id) = {}
                THEN resp' = [Response(404, "No home address found") EXCEPT
                                 !.user = current_user.username,
                                 !.opened = g.opened + 1]
                ELSE resp' = [Response(500, "Internal Server Error") EXCEPT
                                 !.user = current_user.username,
                                 !.opened = g.opened + 1]
    /\ UNCHANGED <<env, proc, SECRET_KEY, ALGORITHM,
                   ACCESS_TOKEN_EXPIRE_MINUTES, now, users, nextId, homes, pc,
                   loc, issued>>

get_user_addresses ==
    /\ proc = "running"
    /\ \E header \in HeaderInputs, collected \in BOOLEAN :
         LET request == [cookie |-> None, header |-> header]
             g == get_current_user(request, users, SECRET_KEY, ALGORITHM, now)
             current_user == CHOOSE u \in g.user : TRUE
             mine == HomeOf(homes, current_user.id)
         IN  /\ req' = [op |-> "addresses", at |-> now,
                        args |-> [header |-> header]]
             /\ IF g.status # 200
                THEN resp' = [status |-> g.status, detail |-> g.detail,
                              user |-> "", body |-> <<>>, opened |-> g.opened]
                ELSE IF collected
                THEN resp' = [Response(500, "Internal Server Error") EXCEPT
                                 !.user = current_user.username,
                                 !.opened = g.opened]
                ELSE resp' = [Response(200, "") EXCEPT
                                 !.user = current_user.username,
                                 !.body = IF mine = {} THEN <<>>
                                          ELSE <<homes[CHOOSE i \in mine :
                                                   \A j \in mine : i <= j]>>,
                                 !.opened = g.opened]
    /\ UNCHANGED <<env, proc, SECRET_KEY, ALGORITHM,
                   ACCESS_TOKEN_EXPIRE_MINUTES, now, users, nextId, homes, pc,
                   loc, issued>>

(***************************************************************************)
(* Specifications                                                          *)
(***************************************************************************)
Next ==
    \/ LoadConfig
    \/ Tick
    \/ IssueToken
    \/ Decode
    \/ read_users_me
    \/ Cleanup
    \/ \E p \in Procs : SignupQuery(p)
    \/ \E p \in Procs : SignupCommit(p)
    \/ login
    \/ add_or_update_home_address
    \/ delete_home_address
    \/ get_user_addresses

Spec == Init /\ [][Next]_vars

\* The authentication core: startup, token service, identity resolution,
\* over a populated user store that cleanup.py may empty.
InitAuth == Init /\ users = SeedUsers

NextAuth ==
    \/ LoadConfig
    \/ Tick
    \/ IssueToken
    \/ Decode
    \/ read_users_me
    \/ Cleanup

SpecAuth == InitAuth /\ [][NextAuth]_vars

\* After a successful startup.
InitRunning ==
    /\ env = GoodEnv
    /\ proc = "running"
    /\ SECRET_KEY = GoodEnv.SECRET_KEY[1]
    /\ ALGORITHM = GoodEnv.ALGORITHM[1]
    /\ ACCESS_TOKEN_EXPIRE_MINUTES =
           PyInt(GoodEnv.ACCESS_TOKEN_EXPIRE_MINUTES[1]).val
    /\ InitCommon

\* Account creation and login, with concurrent signup requests.
InitAccounts ==
    /\ InitRunning
    /\ \/ users = {} /\ nextId = 1
       \/ users = SeedUsers /\ nextId = 3

NextAccounts ==
    \/ \E p \in Procs : SignupQuery(p)
    \/ \E p \in Procs : SignupCommit(p)
    \/ login
    \/ Cleanup

SpecAccounts == InitAccounts /\ [][NextAccounts]_vars

\* The home address endpoints over a populated user store.
InitAddresses ==
    /\ InitRunning
    /\ users = SeedUsers
    /\ nextId = 3

NextAddresses ==
    \/ add_or_update_home_address
    \/ delete_home_address
    \/ get_user_addresses
    \/ Cleanup

SpecAddresses == InitAddresses /\ [][NextAddresses]_vars

(***************************************************************************)
(* Properties                                                              *)
(***************************************************************************)
\* The claims of a token that verifies at time t, {} otherwise.
Verified(token, t) ==
    IF /\ token.wellformed
       /\ token.alg = ALGORITHM
       /\ token.sig = Sign(token.payload, SECRET_KEY, ALGORITHM)
       /\ ("exp" \in DOMAIN token.payload => token.payload["exp"] >= t)
    THEN {token.payload} ELSE {}

\* The stored username a presented token (<<>> or <<token>>) stands for.
SubjectOf(presented, t) ==
    IF presented = None THEN {}
    ELSE {p["sub"] : p \in {q \in Verified(presented[1], t) :
                               /\ "sub" \in DOMAIN q
                               /\ UsersNamed(users, q["sub"]) # {}}}

\* C1 (as claimed): when a request carries a valid cookie token for user A
\* and a different valid bearer-header token for user B, get_current_user
\* resolves to A.
C1_CookiePrecedence ==
    (/\ req.op = "me"
     /\ SubjectOf(req.args.cookie, req.at) # {}
     /\ SubjectOf(req.args.header, req.at) # {}
     /\ SubjectOf(req.args.cookie, req.at) # SubjectOf(req.args.header, req.at))
    => /\ resp.status = 200
       /\ {resp.user} = SubjectOf(req.args.cookie, req.at)

\* C1 (amended): get_current_user reads the token from the Authorization:
\* Bearer header only.  With a valid cookie token for A and a different valid
\* header token for B the resolved identity is B, and a request without the
\* bearer header is rejected with 401 whatever its cookie holds.
C1_HeaderOnly ==
    req.op = "me" =>
        /\ SubjectOf(req.args.header, req.at) # {}
               => /\ resp.status = 200
                  /\ {resp.user} = SubjectOf(req.args.header, req.at)
        /\ req.args.header = None
               => /\ resp.status = 401
                  /\ resp.detail = "Not authenticated"
                  /\ resp.user = ""

C1_Witness ==
    /\ req.op = "me"
    /\ SubjectOf(req.args.cookie, req.at) = {"alice"}
    /\ SubjectOf(req.args.header, req.at) = {"bob"}
    /\ resp.user = "bob"

\* C2: a token issued by create_access_token with expires_delta <= 0 is
\* rejected by every later decode_access_token.
C2_NonPositiveLifetimeExpired ==
    (/\ req.op = "decode"
     /\ issued # None
     /\ req.args.token = issued[1].token
     /\ issued[1].delta # None
     /\ issued[1].delta[1] <= 0)
    => resp.status = 401

\* C3 (as claimed): whenever the process has started, the three settings are
\* present and ACCESS_TOKEN_EXPIRE_MINUTES is an integer > 0.
C3_PositiveLifetimeGuard ==
    proc = "running" =>
        /\ Truthy(env.SECRET_KEY)
        /\ Truthy(env.ALGORITHM)
        /\ Truthy(env.ACCESS_TOKEN_EXPIRE_MINUTES)
        /\ PyInt(env.ACCESS_TOKEN_EXPIRE_MINUTES[1]).ok
        /\ ACCESS_TOKEN_EXPIRE_MINUTES > 0

\* C3 (amended): startup aborts exactly when SECRET_KEY, ALGORITHM or
\* ACCESS_TOKEN_EXPIRE_MINUTES is absent or empty, or the latter does not
\* parse as an integer; zero and negative lifetimes are accepted.  Requests
\* are handled only by a process whose three settings are present and whose
\* lifetime is the parsed integer.
C3_StartupGuard ==
    LET absent(v) == v = None \/ v = <<<<>>>>
        bad == \/ absent(env.SECRET_KEY)
               \/ absent(env.ALGORITHM)
               \/ absent(env.ACCESS_TOKEN_EXPIRE_MINUTES)
               \/ ~PyInt(env.ACCESS_TOKEN_EXPIRE_MINUTES[1]).ok
    IN  /\ proc = "aborted" => bad
        /\ proc = "running" =>
               /\ ~bad
               /\ SECRET_KEY = env.SECRET_KEY[1]
               /\ ALGORITHM = env.ALGORITHM[1]
               /\ ACCESS_TOKEN_EXPIRE_MINUTES =
                      PyInt(env.ACCESS_TOKEN_EXPIRE_MINUTES[1]).val
        /\ req.op \notin {"none", "cleanup"} => proc = "running"

C3_Witness ==
    /\ proc = "running"
    /\ env.ACCESS_TOKEN_EXPIRE_MINUTES = <<<<"0">>>>
    /\ ACCESS_TOKEN_EXPIRE_MINUTES = 0
    /\ req.op = "me"

\* C4: a request with neither cookie nor Authorization header is rejected
\* with 401 and no database session is opened for it.
C4_NoTokenNoLookup ==
    (/\ req.op = "me"
     /\ req.args.cookie = None
     /\ req.args.header = None)
    => /\ resp.status = 401
       /\ resp.opened = 0
       /\ resp.user = ""

C4_Witness ==
    /\ req.op = "me"
    /\ req.args.cookie = None
    /\ req.args.header = None
    /\ resp.status = 401
    /\ users # {}

\* Why python-jose rejects the token of a decode request.
FailureKind(r) == JwtDecode(r.args.token, SECRET_KEY, ALGORITHM, r.at).err

C7_UnknownSubject ==
    (req.op = "me" /\ req.args.header # None) =>
        \A p \in Verified(req.args.header[1], req.at) :
            /\ "sub" \notin DOMAIN p
                   => resp.status = 401 /\ resp.user = ""
            /\ ("sub" \in DOMAIN p /\ UsersNamed(users, p["sub"]) = {})
                   => resp.status = 404 /\ resp.user = ""

C7_Witness ==
    /\ req.op = "me"
    /\ req.args.header # None
    /\ \E p \in Verified(req.args.header[1], req.at) :
           "sub" \in DOMAIN p /\ p["sub"] = "alice"
    /\ users = {}
    /\ resp.status = 404

\* C8: a login against a record whose stored hash is malformed ends in the
\* ordinary 401, verify_password having returned false.
C8_LoginNeverRaises ==
    (/\ req.op = "login"
     /\ \E u \in UsersNamed(users, req.args.username) :
            u.hashed_password.ident # BcryptIdent)
    => /\ resp.status = 401
       /\ resp.detail = "Invalid username or password"

\* C9: POST /home-address by an authenticated user succeeds, returns the
\* submitted address, and leaves exactly one home address for that user,
\* equal to the submitted one.
C9_AddOrUpdate ==
    (req.op = "post_home" /\ SubjectOf(req.args.header, req.at) # {}) =>
        \A u \in users :
            u.username \in SubjectOf(req.args.header, req.at) =>
                /\ resp.status = 200
                /\ AddressOf(resp.body[1]) = req.args.address
                /\ Cardinality(HomeOf(homes, u.id)) = 1
                /\ \A i \in HomeOf(homes, u.id) :
                       AddressOf(homes[i]) = req.args.address

\* C10: users never holds two rows of one username, and a signup that
\* reaches its commit when a row of its username exists ends with 409 and
\* leaves the table unchanged.
C10_ConcurrentSignup ==
    /\ [](\A u, v \in users : u.username = v.username => u = v)
    /\ [][\A p \in Procs :
            (/\ pc[p] = "insert"
             /\ pc'[p] = "idle"
             /\ UsersNamed(users, loc[p].username) # {})
            => (resp'.status = 409 /\ users' = users)]_vars

====
